---- MODULE Spec2Model ----
(***************************************************************************)
(* Job scheduling and execution engine of the automation platform.         *)
(*                                                                         *)
(*   core/scheduler.py  JobScheduler (a wrapper around APScheduler's       *)
(*                      BackgroundScheduler with its default thread pool)  *)
(*   core/executor.py   JobExecutor.execute_job (the execution ledger)     *)
(*   storage/           the store: jobs and job_executions tables          *)
(*   dashboard/api      a second process that edits the same store         *)
(*   main.py            AutomationPlatform: initialize, start, stop        *)
(*                                                                         *)
(* Time is counted in whole minutes, the granularity of a 5-field cron     *)
(* expression.  `executions` is the committed content of job_executions:   *)
(* what a reader of the store, or an operator after a crash, can see.      *)
(***************************************************************************)
EXTENDS Integers, Sequences, FiniteSets, TLC

\* ---------------------------------------------------------------- bounds
NumJobs == 2
MaxRuns == 3
MaxTime == 2
MaxConfiguredCap == 2
PoolMaxWorkers == 2
MaxCalls == 2

Jobs == 1..NumJobs

\* ------------------------------------------------------ program constants
\* scheduler.py:50  'misfire_grace_time': 60 (seconds) = 1 minute
MisfireGraceTime == 1
\* models.py:90-92  nullable columns: the value of a NULL number
NoValue == 0 - 1

\* models.py:18-24  JobStatus
PENDING == "pending"
RUNNING == "running"
SUCCESS == "success"
FAILED == "failed"
CANCELLED == "cancelled"
JobStatus == {PENDING, RUNNING, SUCCESS, FAILED, CANCELLED}
TerminalStatus == {SUCCESS, FAILED, CANCELLED}

\* A NULL text column.
NULL == "NULL"

\* ------------------------------------------------- the base directory
\* Script paths are named after what lies at that path under the base
\* directory: nothing (missing.py), a script that exits 0, one that exits 1
\* after writing to stderr, one that sleeps longer than the timeout.
ExistingPaths == {"scripts/exit0.py", "scripts/exit1.py", "scripts/sleep.py",
                  "scripts/REPORT.PY", "scripts/run.sh", "scripts/run.bash",
                  "scripts/task.ps1", "scripts/task.bat", "scripts/task.cmd",
                  "scripts/notes.txt", "scripts/tool"}

ScriptPaths == ExistingPaths \cup {"scripts/missing.py"}

\* executor.py:135-138  full_path.exists()
PathExists(script_path) == script_path \in ExistingPaths

\* pathlib: Path.suffix, the last dot of the file name and what follows it
PathSuffix(script_path) ==
    CASE script_path \in {"scripts/exit0.py", "scripts/exit1.py",
                          "scripts/sleep.py", "scripts/missing.py"} -> ".py"
      [] script_path = "scripts/REPORT.PY" -> ".PY"
      [] script_path = "scripts/run.sh"    -> ".sh"
      [] script_path = "scripts/run.bash"  -> ".bash"
      [] script_path = "scripts/task.ps1"  -> ".ps1"
      [] script_path = "scripts/task.bat"  -> ".bat"
      [] script_path = "scripts/task.cmd"  -> ".cmd"
      [] script_path = "scripts/notes.txt" -> ".txt"
      [] OTHER                             -> ""

\* str.lower on a suffix
Lower(suffix) == IF suffix = ".PY" THEN ".py" ELSE suffix

\* platform.system().lower() (executor.py:34)
Platforms == {"linux", "windows", "darwin"}

\* Cron expressions of the jobs table (models.py:56, register_jobs.py).
EveryMinute == "* * * * *"
EveryTwoMinutes == "*/2 * * * *"
EveryThreeMinutes == "*/3 * * * *"
EveryFiveMinutes == "*/5 * * * *"
EverySevenMinutes == "*/7 * * * *"
HalfPast == "30 * * * *"
CronExprs == {EveryMinute, EveryTwoMinutes, EveryThreeMinutes,
              EveryFiveMinutes, EverySevenMinutes, HalfPast}

\* Texts that are not cron expressions: four fields, a minute out of range,
\* words.  A missing text is NULL (None) or the empty string.
MalformedCronTexts == {"* * * *", "61 * * * *", "every minute"}

VARIABLES
    max_concurrent_jobs,  \* settings.max_concurrent_jobs
    now,                  \* wall clock, minutes
    jobs,                 \* store: jobs table
    executions,           \* store: job_executions table, committed rows, by id
    schedState,           \* JobScheduler: scheduler / _running / shutdown
    entries,              \* APScheduler job store: the registered entries
    runs,                 \* work items submitted to the thread pool
    runner,               \* JobExecutor: platform, and the calls of _execute_script
    apiRuns,              \* dashboard API: the execute-now requests being served
    lastCall              \* JobScheduler control surface: the last add_job call

vars == <<max_concurrent_jobs, now, jobs, executions, schedState, entries, runs,
          runner, apiRuns, lastCall>>

\* ---------------------------------------------------------- process runner
\* what the child process of a script does: exit code and captured stderr, or
\* no exit before the timeout (TimeoutExpired)
ChildOutcome(script_path) ==
    CASE script_path \in {"scripts/exit1.py", "scripts/task.bat"}
                                          -> [timed_out |-> FALSE, returncode |-> 1, stderr |-> "boom"]
      [] script_path = "scripts/sleep.py" -> [timed_out |-> TRUE, returncode |-> NoValue, stderr |-> NULL]
      [] OTHER                            -> [timed_out |-> FALSE, returncode |-> 0, stderr |-> ""]

\* the dictionary the runner returns when it does not run the script to its
\* end (executor.py:139-145, 154-160, 164-170, 173-179, 220-235)
FailureResult(message) ==
    [success |-> FALSE, exit_code |-> 0 - 1, stdout |-> "",
     stderr |-> message, error |-> message]

\* executor.py:196-235, 252-287, 304-350: the three _execute_*_script methods
\* share one body.  subprocess.run (for a shell script, os.chmod before it)
\* either raises an OSError, caught by `except Exception`, or starts the child
\* and waits for it up to the timeout.
SubprocessResult(script_path, spawn_ok) ==
    LET child == ChildOutcome(script_path) IN
    IF ~spawn_ok THEN FailureResult("OSError")
    ELSE IF child.timed_out THEN FailureResult("Timeout after Ns")
    ELSE [success |-> child.returncode = 0, exit_code |-> child.returncode,
          stdout |-> "out", stderr |-> child.stderr,
          error |-> IF child.returncode = 0 THEN NULL ELSE child.stderr]

\* executor.py:181-235  JobExecutor._execute_python_script
ExecutePythonScript(script_path, spawn_ok) == SubprocessResult(script_path, spawn_ok)

\* executor.py:237-287  JobExecutor._execute_shell_script
ExecuteShellScript(script_path, spawn_ok) == SubprocessResult(script_path, spawn_ok)

\* executor.py:289-350  JobExecutor._execute_windows_script
ExecuteWindowsScript(script_path, spawn_ok) == SubprocessResult(script_path, spawn_ok)

\* (variant: the platform test of the Windows branch is inverted)
ScriptActionWindowsAnywhere(platform, script_path) ==
    LET extension == Lower(PathSuffix(script_path)) IN
    IF ~PathExists(script_path) THEN "not_found"
    ELSE IF extension = ".py" THEN "python"
    ELSE IF extension \in {".sh", ".bash"}
         THEN IF platform = "windows" THEN "refused_shell" ELSE "shell"
    ELSE IF extension \in {".ps1", ".bat", ".cmd"}
         THEN IF platform = "windows" THEN "refused_windows" ELSE "windows"
    ELSE "unsupported"

\* executor.py:135-179  the branch _execute_script takes
ScriptAction(platform, script_path) ==
    LET extension == Lower(PathSuffix(script_path)) IN
    IF ~PathExists(script_path) THEN "not_found"
    ELSE IF extension = ".py" THEN "python"
    ELSE IF extension \in {".sh", ".bash"}
         THEN IF platform = "windows" THEN "refused_shell" ELSE "shell"
    ELSE IF extension \in {".ps1", ".bat", ".cmd"}
         THEN IF platform # "windows" THEN "refused_windows" ELSE "windows"
    ELSE "unsupported"

\* executor.py:119-179  JobExecutor._execute_script: the dictionary returned
ExecuteScript(platform, script_path, spawn_ok) ==
    LET action == ScriptAction(platform, script_path) IN
    CASE action = "not_found"       -> FailureResult("Script not found")
      [] action = "python"          -> ExecutePythonScript(script_path, spawn_ok)
      [] action = "refused_shell"   -> FailureResult("Shell scripts not supported on Windows")
      [] action = "shell"           -> ExecuteShellScript(script_path, spawn_ok)
      [] action = "refused_windows" -> FailureResult("Windows scripts not supported on Linux")
      [] action = "windows"         -> ExecuteWindowsScript(script_path, spawn_ok)
      [] OTHER                      -> FailureResult("Unsupported script type")

\* the program subprocess.run started for the call: sys.executable, bash, the
\* platform shell (shell=True), or none
NoProcess == "none"

SpawnedProcess(platform, script_path, spawn_ok) ==
    LET action == ScriptAction(platform, script_path) IN
    IF ~spawn_ok THEN NoProcess
    ELSE CASE action = "python"  -> "interpreter"
           [] action = "shell"   -> "shell"
           [] action = "windows" -> "platform_shell"
           [] OTHER              -> NoProcess

\* the result of _execute_script on the engine's host when the child starts
ExecuteScriptResult(script_path) == ExecuteScript(runner.platform, script_path, TRUE)

\* --------------------------------------------------------------- helpers
RunIds == DOMAIN runs
ExecIds == DOMAIN executions

\* pc values of a work item (apscheduler run_job wrapping execute_job)
LivePc == {"queued", "exec"}

\* pool threads that are inside run_job
BusyWorkers == Cardinality({r \in RunIds : runs[r].pc \in (LivePc \ {"queued"})})

\* ------------------------------------------------------------------ Init
NoEntry == [registered |-> FALSE, trigger |-> NULL, cron_expression |-> NULL,
            interval_seconds |-> NoValue, start_date |-> NoValue,
            run_date |-> NoValue, next_run_time |-> NoValue, paused |-> FALSE]

\* Contents of the jobs table when the platform starts (register_jobs.py
\* fills it): the scripts of the first two jobs, any further job running a
\* script that exits 0; the first job is due every second minute and the
\* others every minute.
ScriptTables == {<<"scripts/missing.py", "scripts/exit0.py">>,
                 <<"scripts/sleep.py", "scripts/exit1.py">>}

JobRow(j, scripts) ==
    [present |-> TRUE, enabled |-> TRUE, max_retries |-> 3,
     cron_expression |-> IF j = 1 THEN EveryTwoMinutes ELSE EveryMinute,
     script_path |-> IF j <= Len(scripts) THEN scripts[j] ELSE "scripts/exit0.py"]

\* no add_job call made yet through the control surface
NoCall == [seq |-> 0, op |-> NULL, at |-> NoValue, job_id |-> 0, cron_expression |-> NULL,
           interval_seconds |-> NoValue, run_date |-> NoValue,
           replace_existing |-> NULL, raised |-> NULL]

Init ==
    /\ max_concurrent_jobs \in 1..MaxConfiguredCap
    /\ now = 0
    /\ jobs \in {[j \in Jobs |-> JobRow(j, scripts)] : scripts \in ScriptTables}
    /\ executions = <<>>
    /\ schedState = "none"
    /\ entries = [j \in Jobs |-> NoEntry]
    /\ runs = <<>>
    /\ runner = [platform |-> "linux", calls |-> <<>>]
    /\ apiRuns = <<>>
    /\ lastCall = NoCall

\* ------------------------------------------------------- trigger resolver
\* str.split(): the fields of a cron text
CronFields(expr) ==
    CASE expr = EveryMinute      -> <<"*", "*", "*", "*", "*">>
      [] expr = EveryTwoMinutes  -> <<"*/2", "*", "*", "*", "*">>
      [] expr = EveryThreeMinutes -> <<"*/3", "*", "*", "*", "*">>
      [] expr = EveryFiveMinutes -> <<"*/5", "*", "*", "*", "*">>
      [] expr = EverySevenMinutes -> <<"*/7", "*", "*", "*", "*">>
      [] expr = HalfPast         -> <<"30", "*", "*", "*", "*">>
      [] expr = "* * * *"        -> <<"*", "*", "*", "*">>
      [] expr = "61 * * * *"     -> <<"61", "*", "*", "*", "*">>
      [] expr = "every minute"   -> <<"every", "minute">>
      [] OTHER                   -> <<>>

\* the ranges of the fields minute, hour, day, month, day of week
FieldMin == <<0, 0, 1, 1, 0>>
FieldMax == <<59, 23, 31, 12, 6>>

\* int(token) of a token made of digits, NoValue for any other token
TokenNumber(token) ==
    CASE token = "61" -> 61
      [] token = "30" -> 30
      [] OTHER -> NoValue

\* the step n of a token */n, 0 for any other token
StepOf(token) ==
    CASE token = "*/2" -> 2
      [] token = "*/3" -> 3
      [] token = "*/5" -> 5
      [] token = "*/7" -> 7
      [] OTHER -> 0

\* a field compiles: a wildcard, a step, or a number inside the field's range
FieldValid(i, token) ==
    \/ token = "*"
    \/ StepOf(token) > 0
    \/ /\ TokenNumber(token) # NoValue
       /\ TokenNumber(token) >= FieldMin[i]
       /\ TokenNumber(token) <= FieldMax[i]

\* (variant: only the number of fields is checked)
CronValidFieldCountOnly(expr) == Len(CronFields(expr)) = 5

\* CronTrigger.from_crontab accepts the expression (scheduler.py:132-135):
\* five fields, each of which compiles; otherwise it raises ValueError
CronValid(expr) ==
    LET fields == CronFields(expr) IN
    /\ Len(fields) = 5
    /\ \A i \in 1..5 : FieldValid(i, fields[i])

\* The instants of the trigger, counted in half minutes from the start of
\* an hour, so that an instant can lie on a minute's start or inside it.
\* The minute field matches minute m of the hour: any minute, the minutes
\* that are multiples of the step, or the minute given.
MinuteMatches(expr, m) ==
    LET token == CronFields(expr)[1] IN
    IF token = "*" THEN TRUE
    ELSE IF StepOf(token) > 0 THEN m % StepOf(token) = 0
    ELSE m = TokenNumber(token)

\* the expression fires at instant i: second 0 of a matching minute
Fires(expr, i) == i % 2 = 0 /\ MinuteMatches(expr, (i \div 2) % 60)

\* the first firing instant that is not before start (one lies within any
\* hour)
FirstFireFrom(expr, start) ==
    CHOOSE i \in start..(start + 120) :
        /\ Fires(expr, i)
        /\ \A k \in start..(i - 1) : ~Fires(expr, k)

\* (variant: the search always starts after t)
GetNextFireTimeExclusive(expr, previous_fire_time, t) ==
    FirstFireFrom(expr, (IF previous_fire_time = NoValue THEN t ELSE previous_fire_time) + 1)

\* CronTrigger.get_next_fire_time(previous_fire_time, now): without a
\* previous fire time the search starts at now itself; with one it starts
\* just after it, or at now when now is earlier
GetNextFireTime(expr, previous_fire_time, t) ==
    FirstFireFrom(expr,
                  IF previous_fire_time = NoValue THEN t
                  ELSE IF t < previous_fire_time THEN t
                  ELSE previous_fire_time + 1)

\* minutes between two fires of a valid expression within the hour
CronPeriod(expr) ==
    LET token == CronFields(expr)[1] IN
    IF token = "*" THEN 1
    ELSE IF StepOf(token) > 0 THEN StepOf(token)
    ELSE 60

\* CronTrigger.get_next_fire_time: the first fire time after minute t
CronNextAfter(expr, t) == ((t \div CronPeriod(expr)) + 1) * CronPeriod(expr)

\* Job._get_run_times(now) with coalesce=True (scheduler.py:48): of the fire
\* times from next_run_time up to now, only the last one is run
CoalescedRunTime(expr, next_run_time, t) ==
    next_run_time + ((t - next_run_time) \div CronPeriod(expr)) * CronPeriod(expr)

\* ------------------------------------------------------------- the clock
Tick ==
    /\ now < MaxTime
    /\ now' = now + 1
    /\ UNCHANGED <<max_concurrent_jobs, jobs, executions, schedState, entries, runs, runner, apiRuns, lastCall>>

\* ------------------------------------------------------ main.py / scheduler
\* AutomationPlatform.initialize -> JobScheduler.initialize
PlatformInitialize ==
    /\ schedState = "none"
    /\ schedState' = "initialized"
    /\ UNCHANGED <<max_concurrent_jobs, now, jobs, executions, entries, runs, runner, apiRuns, lastCall>>

\* ------------------------------------------------- JobScheduler.add_job
\* scheduler.py:130-150: the trigger is chosen by the first argument that is
\* truthy, in the order cron_expression, interval_seconds, run_date
TriggerKind(cron_expression, interval_seconds, run_date) ==
    IF cron_expression \notin {NULL, ""} THEN "cron"
    ELSE IF interval_seconds \notin {NoValue, 0} THEN "interval"
    ELSE IF run_date # NoValue THEN "date"
    ELSE "none"

\* what add_job raises, NULL when it returns.  ValueError: no trigger
\* (scheduler.py:150) or from_crontab refusing the text (scheduler.py:132).
\* TypeError: replace_existing given in **scheduler_kwargs meets the
\* replace_existing=True of the call at scheduler.py:153-161.
AddJobRaises(cron_expression, interval_seconds, run_date, replace_existing) ==
    LET kind == TriggerKind(cron_expression, interval_seconds, run_date) IN
    IF kind = "none" THEN "ValueError"
    ELSE IF kind = "cron" /\ ~CronValid(cron_expression) THEN "ValueError"
    ELSE IF replace_existing # NULL THEN "TypeError"
    ELSE NULL

\* math.ceil(a / b) for a >= 0 and b > 0
CeilDiv(a, b) == (a + b - 1) \div b

\* trigger.get_next_fire_time(None, t), the first fire time computed at t.
\* Cron: the next match.  Interval: start_date if it is still ahead, else the
\* first start_date + k * interval that is not before t.  Date: the run date,
\* whether or not it has passed.
FirstRunTime(e, t) ==
    CASE e.trigger = "cron"     -> CronNextAfter(e.cron_expression, t)
      [] e.trigger = "interval" ->
            IF e.start_date > t THEN e.start_date
            ELSE e.start_date
                   + CeilDiv(t - e.start_date, e.interval_seconds) * e.interval_seconds
      [] OTHER                  -> e.run_date

\* the trigger add_job builds (scheduler.py:131-148).  IntervalTrigger
\* without a start date sets start_date to the time it is built plus the
\* interval.
NewTrigger(cron_expression, interval_seconds, run_date) ==
    LET kind == TriggerKind(cron_expression, interval_seconds, run_date) IN
    [registered |-> TRUE, trigger |-> kind,
     cron_expression |-> IF kind = "cron" THEN cron_expression ELSE NULL,
     interval_seconds |-> IF kind = "interval" THEN interval_seconds ELSE NoValue,
     start_date |-> IF kind = "interval" THEN now + interval_seconds ELSE NoValue,
     run_date |-> IF kind = "date" THEN run_date ELSE NoValue,
     next_run_time |-> NoValue, paused |-> FALSE]

\* scheduler.py:153-161 with replace_existing=True: the entry stored under
\* the id, whatever was there.  A running scheduler computes the first run
\* time at once; otherwise the job is pending until start.
AddedEntry(old, cron_expression, interval_seconds, run_date, running) ==
    LET e == NewTrigger(cron_expression, interval_seconds, run_date) IN
    [e EXCEPT !.next_run_time = IF running THEN FirstRunTime(e, now) ELSE NoValue]

\* JobScheduler.load_jobs_from_database: one entry job_<id> per enabled job,
\* added with its cron_expression only (scheduler.py:261-265); add_job raises
\* for a missing or malformed cron expression, which the loop logs and skips.
\* JobScheduler.start follows at once (main.py:100-103), so the first run
\* time is computed at the minute of the load.
LoadedEntryAbortAtFailure(j) ==
    IF /\ jobs[j].present
       /\ jobs[j].enabled
       /\ AddJobRaises(jobs[j].cron_expression, NoValue, NoValue, NULL) = NULL
       /\ \A k \in 1..(j - 1) :
            (jobs[k].present /\ jobs[k].enabled)
                => AddJobRaises(jobs[k].cron_expression, NoValue, NoValue, NULL) = NULL
    THEN AddedEntry(NoEntry, jobs[j].cron_expression, NoValue, NoValue, TRUE)
    ELSE NoEntry

LoadedEntry(j) ==
    IF /\ jobs[j].present
       /\ jobs[j].enabled
       /\ AddJobRaises(jobs[j].cron_expression, NoValue, NoValue, NULL) = NULL
    THEN AddedEntry(NoEntry, jobs[j].cron_expression, NoValue, NoValue, TRUE)
    ELSE NoEntry

\* AutomationPlatform.start: load the jobs, then JobScheduler.start
PlatformStart ==
    /\ schedState = "initialized"
    /\ entries' = [j \in Jobs |-> LoadedEntry(j)]
    /\ schedState' = "running"
    /\ UNCHANGED <<max_concurrent_jobs, now, jobs, executions, runs, runner, apiRuns, lastCall>>

\* ------------------------------------------------- the timing loop (library)
DueJobs ==
    {j \in Jobs : /\ entries[j].registered
                  /\ entries[j].next_run_time # NoValue
                  /\ entries[j].next_run_time <= now}

\* Job._get_run_times(now) with coalesce=True (scheduler.py:48): the last of
\* the entry's fire times from next_run_time up to t
LastDueRunTime(e, t) ==
    CASE e.trigger = "cron"     -> CoalescedRunTime(e.cron_expression, e.next_run_time, t)
      [] e.trigger = "interval" ->
            e.next_run_time
              + ((t - e.next_run_time) \div e.interval_seconds) * e.interval_seconds
      [] OTHER                  -> e.next_run_time

\* (variant: the interval is counted from the wall clock)
NextRunTimeFromNow(e, last) ==
    CASE e.trigger = "cron"     -> CronNextAfter(e.cron_expression, last)
      [] e.trigger = "interval" -> now + e.interval_seconds
      [] OTHER                  -> NoValue

\* trigger.get_next_fire_time(last, now), the fire time after the run time
\* last: the next match of a cron expression, last + interval, None for a
\* date
NextRunTimeAfter(e, last) ==
    CASE e.trigger = "cron"     -> CronNextAfter(e.cron_expression, last)
      [] e.trigger = "interval" -> last + e.interval_seconds
      [] OTHER                  -> NoValue

\* jobstore.get_due_jobs: by next_run_time, then by entry id
RECURSIVE DueSeq(_)
DueSeq(S) ==
    IF S = {} THEN <<>>
    ELSE LET j == CHOOSE x \in S : \A y \in S :
                      \/ entries[x].next_run_time < entries[y].next_run_time
                      \/ /\ entries[x].next_run_time = entries[y].next_run_time
                         /\ x <= y
         IN <<j>> \o DueSeq(S \ {j})

\* (variant: job_func reads the loop variable when it is called, and finds the
\* last job of the load)
JobFuncLateBound(j) ==
    CHOOSE k \in Jobs : /\ entries[k].registered
                        /\ \A m \in Jobs : entries[m].registered => m <= k

\* scheduler.py:257-258: the job id that the callback of entry job_<j> passes
\* to execute_job.  The default argument job_id=job.id is evaluated when the
\* def statement runs, in the iteration of the loop that adds job_<j>
JobFunc(j) == j

\* a work item: the entry that fired (job) and the argument of its callback
\* (job_id)
NewRun(j, run_time) ==
    [job |-> j, job_id |-> JobFunc(j), run_time |-> run_time, pc |-> "queued",
     execution_id |-> 0, outcome |-> NULL, retval |-> NULL, exc |-> NULL]

\* 'max_instances': settings.max_concurrent_jobs (scheduler.py:49)
MaxInstances == max_concurrent_jobs

\* BaseExecutor.submit_job: MaxInstancesReachedError when the job already has
\* max_instances work items; otherwise the item goes to the thread pool
\* (BaseExecutor._instances[job_id] counts the items submitted and not done)
SubmitJob(rs, j, run_time) ==
    IF Cardinality({r \in DOMAIN rs : rs[r].job = j /\ rs[r].pc # "done"}) >= MaxInstances
    THEN rs
    ELSE Append(rs, NewRun(j, run_time))

RECURSIVE SubmitAll(_, _)
SubmitAll(due, rs) ==
    IF due = <<>> THEN rs
    ELSE LET j == Head(due)
             e == entries[j]
         IN SubmitAll(Tail(due),
                      SubmitJob(rs, j, LastDueRunTime(e, now)))

\* the next fire time is recomputed whether or not the submit succeeded; an
\* entry whose trigger has no further fire time is removed from the store
AdvancedEntry(j) ==
    LET e == entries[j]
        next == NextRunTimeAfter(e, LastDueRunTime(e, now))
    IN IF next = NoValue THEN NoEntry ELSE [e EXCEPT !.next_run_time = next]

\* BaseScheduler._process_jobs: one wake-up of the scheduler thread
ProcessJobs ==
    /\ schedState = "running"
    /\ DueJobs # {}
    /\ Len(SubmitAll(DueSeq(DueJobs), runs)) <= MaxRuns
    /\ runs' = SubmitAll(DueSeq(DueJobs), runs)
    /\ entries' = [j \in Jobs |-> IF j \in DueJobs THEN AdvancedEntry(j) ELSE entries[j]]
    /\ UNCHANGED <<max_concurrent_jobs, now, jobs, executions, schedState, runner, apiRuns, lastCall>>

\* ------------------------------------------------------------ thread pool
\* the process is alive and its pool threads run (also during shutdown(wait))
PoolAlive == schedState \in {"running", "stopping"}

\* (variant: a run that failed goes back to the queue when its job has
\* max_retries left, models.py:62)
FinishedRunRequeued(run, outcome, retval, exc) ==
    IF exc # NULL /\ jobs[run.job_id].max_retries > 0
    THEN [run EXCEPT !.pc = "queued"]
    ELSE [run EXCEPT !.pc = "done", !.outcome = outcome, !.retval = retval, !.exc = exc]

\* (variant: a failed run is run again, max_retries of models.py:62)
FinishedRunRetried(run, outcome, retval, exc) ==
    IF outcome = "returned" /\ exc # NULL
    THEN run
    ELSE [run EXCEPT !.pc = "done", !.outcome = outcome, !.retval = retval, !.exc = exc]

\* run_job catches whatever job.func raised; the executor's done-callback
\* releases the instance slot and the listeners (scheduler.py:221-230) log
FinishedRun(run, outcome, retval, exc) ==
    [run EXCEPT !.pc = "done", !.outcome = outcome, !.retval = retval, !.exc = exc]

\* (variant: an exception of the job function ends the scheduler)
SchedulerAfterRunPropagating(outcome) ==
    IF outcome = "raised" THEN "stopped" ELSE schedState

\* run_job wraps the call of the job function in try/except: whatever it
\* raised becomes an EVENT_JOB_ERROR on the worker thread and the scheduler
\* thread is not touched
SchedulerAfterRun(outcome) == schedState

Finish(r, outcome, retval, exc) ==
    /\ runs' = [runs EXCEPT ![r] = FinishedRun(@, outcome, retval, exc)]
    /\ schedState' = SchedulerAfterRun(outcome)

\* (variant: misfire_grace_time None, no run is ever late)
MisfiredNever(run) == FALSE

\* run_job: a run whose run time was missed by more than misfire_grace_time
\* is dropped without calling the job function
Misfired(run) == now - run.run_time > MisfireGraceTime

\* --------------------------------------------------- executor.execute_job
\* (variant: the row is added with the column defaults, models.py:89-90)
NewExecutionPending(j) ==
    [present |-> TRUE, job_id |-> j, status |-> PENDING,
     started_at |-> NoValue, completed_at |-> NoValue, duration_seconds |-> NoValue,
     stdout |-> NULL, stderr |-> NULL, exit_code |-> NoValue, error_message |-> NULL]

NewExecution(j) ==
    [present |-> TRUE, job_id |-> j, status |-> RUNNING,
     started_at |-> now, completed_at |-> NoValue, duration_seconds |-> NoValue,
     stdout |-> NULL, stderr |-> NULL, exit_code |-> NoValue, error_message |-> NULL]

\* executor.py:46-65: first session.  Job not found: return False.  Otherwise
\* the RUNNING row is added and committed; a commit that fails raises out of
\* execute_job (the with block is outside the try) and leaves no row.
ExecStart(r) ==
    IF ~jobs[runs[r].job_id].present
    THEN /\ Finish(r, "returned", "False", NULL)
         /\ UNCHANGED executions
    ELSE \E committed \in BOOLEAN :
           IF committed
           THEN /\ executions' = Append(executions, NewExecution(runs[r].job_id))
                /\ runs' = [runs EXCEPT ![r].pc = "exec",
                                        ![r].execution_id = Len(executions) + 1]
                /\ UNCHANGED schedState
           ELSE /\ Finish(r, "raised", NULL, "OperationalError")
                /\ UNCHANGED executions

\* ThreadPoolExecutor: a free thread takes the oldest queued work item and
\* enters run_job, which calls the job function, execute_job(job_id)
\* (scheduler.py:258-259), unless the run is dropped as missed
WorkerPickup(r) ==
    /\ PoolAlive
    /\ runs[r].pc = "queued"
    /\ \A q \in RunIds : q < r => runs[q].pc # "queued"
    /\ BusyWorkers < PoolMaxWorkers
    /\ IF Misfired(runs[r])
       THEN /\ Finish(r, "missed", NULL, NULL)
            /\ UNCHANGED executions
       ELSE ExecStart(r)
    /\ UNCHANGED <<max_concurrent_jobs, now, jobs, entries, runner, apiRuns, lastCall>>

\* The Job instance after the first session: session.commit() (executor.py:64,
\* database.py:109) expires every attribute of the instances of the session,
\* the session factory keeping the default expire_on_commit (database.py:64-68),
\* and session.close() (database.py:115) detaches them.  Reading an expired
\* attribute of a detached instance raises DetachedInstanceError.
JobAttributeRead == "DetachedInstanceError"

\* (variant: the handler marks the row cancelled)
HandlerUpdateCancelled(row, exc) ==
    [row EXCEPT !.completed_at = now, !.status = CANCELLED, !.error_message = exc]

\* (variant: the handler forgets completed_at)
HandlerUpdateNoCompletion(row, exc) ==
    [row EXCEPT !.status = FAILED, !.error_message = exc]

\* executor.py:112-114: the fields the exception handler writes
HandlerUpdate(row, exc) ==
    [row EXCEPT !.completed_at = now, !.status = FAILED, !.error_message = exc]

\* executor.py:68-117.  The arguments of _execute_script, job.script_path and
\* job.timeout_seconds, are read from the detached instance inside the try, so
\* control passes to the handler: it re-fetches the row by id in a new session
\* and records the failure.  No row (deleted with its job): execution is None
\* and the first assignment raises AttributeError.  A failed commit raises too.
ExecScript(r) ==
    /\ PoolAlive
    /\ runs[r].pc = "exec"
    /\ LET id == runs[r].execution_id
           e  == JobAttributeRead
       IN
       IF ~executions[id].present
       THEN /\ Finish(r, "raised", NULL, "AttributeError")
            /\ UNCHANGED executions
       ELSE \E committed \in BOOLEAN :
              IF committed
              THEN /\ executions' = [executions EXCEPT ![id] = HandlerUpdate(@, e)]
                   /\ Finish(r, "returned", "False", e)
              ELSE /\ Finish(r, "raised", NULL, "OperationalError")
                   /\ UNCHANGED executions
    /\ UNCHANGED <<max_concurrent_jobs, now, jobs, entries, runner, apiRuns, lastCall>>

\* ------------------------------------------------------------------ stop
\* main.py:35-39,112-126 and scheduler.py:90-98.  Not running: the handler
\* exits at once.  Running: BackgroundScheduler.shutdown(wait=True) stops the
\* timing loop and then waits for the pool.
StopBegin ==
    /\ schedState \in {"none", "initialized", "running"}
    /\ schedState' = IF schedState = "running" THEN "stopping" ELSE "stopped"
    /\ UNCHANGED <<max_concurrent_jobs, now, jobs, executions, entries, runs, runner, apiRuns, lastCall>>

\* (variant: shutdown(wait=False))
PoolDrainedNoWait == TRUE

\* pool.shutdown(wait=True) returns when every submitted work item is done
PoolDrained == \A r \in RunIds : runs[r].pc = "done"

StopReturn ==
    /\ schedState = "stopping"
    /\ PoolDrained
    /\ schedState' = "stopped"
    /\ UNCHANGED <<max_concurrent_jobs, now, jobs, executions, entries, runs, runner, apiRuns, lastCall>>

\* ------------------------------------------------------- dashboard/api/jobs.py
\* delete_job: the job and, by the relationship's cascade (models.py:72),
\* its execution rows
ApiDeleteJob(j) ==
    /\ jobs[j].present
    /\ jobs' = [jobs EXCEPT ![j].present = FALSE]
    /\ executions' = [e \in ExecIds |->
                        IF executions[e].job_id = j
                        THEN [executions[e] EXCEPT !.present = FALSE]
                        ELSE executions[e]]
    /\ UNCHANGED <<max_concurrent_jobs, now, schedState, entries, runs, runner, apiRuns, lastCall>>

Next ==
    \/ Tick
    \/ PlatformInitialize
    \/ PlatformStart
    \/ ProcessJobs
    \/ \E r \in RunIds : WorkerPickup(r)
    \/ \E r \in RunIds : ExecScript(r)
    \/ StopBegin
    \/ StopReturn
    \/ \E j \in Jobs : ApiDeleteJob(j)

Spec == Init /\ [][Next]_vars

\* ====================================================== the process runner
\* JobExecutor._execute_script called on its own, as the module's self-test
\* does (executor.py:380-386), on a host of any platform.
InitRunner ==
    /\ max_concurrent_jobs = 1
    /\ now = 0
    /\ jobs = [j \in Jobs |-> JobRow(j, <<>>)]
    /\ executions = <<>>
    /\ schedState = "none"
    /\ entries = [j \in Jobs |-> NoEntry]
    /\ runs = <<>>
    /\ runner \in [platform : Platforms, calls : {<<>>}]
    /\ apiRuns = <<>>
    /\ lastCall = NoCall

\* one call of _execute_script(script_path, timeout); spawn_ok is whether the
\* operating system lets subprocess.run start the child
RunnerCall(script_path, spawn_ok) ==
    /\ Len(runner.calls) < MaxCalls
    /\ runner' = [runner EXCEPT !.calls = Append(@,
            [script_path |-> script_path,
             spawn_ok    |-> spawn_ok,
             result      |-> ExecuteScript(runner.platform, script_path, spawn_ok),
             spawned     |-> SpawnedProcess(runner.platform, script_path, spawn_ok)])]
    /\ UNCHANGED <<max_concurrent_jobs, now, jobs, executions, schedState, entries, runs,
                   apiRuns, lastCall>>

NextRunner == \E script_path \in ScriptPaths, spawn_ok \in BOOLEAN : RunnerCall(script_path, spawn_ok)

SpecRunner == InitRunner /\ [][NextRunner]_vars

\* ================================================================ claims
\* the execution row of a run that is between its start commit and its
\* terminal write
LiveRow(r) == runs[r].pc = "exec" /\ executions[runs[r].execution_id].present

LiveRunsOf(j) == {r \in RunIds : runs[r].job = j /\ LiveRow(r)}
LiveRuns == {r \in RunIds : LiveRow(r)}

\* C1: two executions of the same job never overlap: no job has more than one
\* execution that is in flight with a Running row; a fire of a job whose
\* previous execution is still Running creates no second Running row.
C1_NoOverlapPerJob ==
    \A j \in Jobs : Cardinality(LiveRunsOf(j)) <= 1

\* C2: the number of executions running at the same time, over all jobs,
\* never exceeds the global cap settings.max_concurrent_jobs.
C2_GlobalCapRespected ==
    Cardinality(LiveRuns) <= max_concurrent_jobs

\* a run that went through the first session and has finished
Recorded(r) == runs[r].pc = "done" /\ runs[r].execution_id # 0

RowOf(r) == executions[runs[r].execution_id]

\* C3: whenever a run is at step 2, where the script is launched, its row has
\* already been committed in Running state with started_at set (it is still
\* Running unless the job was deleted through the API), so a crash there
\* leaves that row in the store; started_at of a row is never written again.
C3_RowCommittedBeforeLaunch ==
    /\ [](\A r \in RunIds : runs[r].pc = "exec" =>
            /\ runs[r].execution_id \in ExecIds
            /\ RowOf(r).job_id = runs[r].job
            /\ RowOf(r).started_at # NoValue
            /\ RowOf(r).started_at <= now
            /\ (RowOf(r).present => RowOf(r).status = RUNNING))
    /\ [][\A e \in ExecIds : /\ e \in DOMAIN executions'
                             /\ executions'[e].started_at = executions[e].started_at]_vars

\* a run sits at step 2 with its committed Running row while time has passed
C3_Witness ==
    \E r \in RunIds : /\ LiveRow(r)
                      /\ RowOf(r).status = RUNNING
                      /\ RowOf(r).started_at < now

\* C4: a row whose status is Success, Failed or Cancelled is never changed by
\* a later step: status, completed_at and the result payload stay as they are.
C4_TerminalRowsFinal ==
    [][\A e \in ExecIds :
          (/\ executions[e].present
           /\ executions[e].status \in TerminalStatus
           /\ executions'[e].present)
          => executions'[e] = executions[e]]_vars

\* a row got its terminal transition and the engine went on working after it
C4_Witness ==
    \E e \in ExecIds : /\ executions[e].present
                       /\ executions[e].status = FAILED
                       /\ executions[e].completed_at # NoValue
                       /\ executions[e].completed_at < now
                       /\ \E r \in RunIds : runs[r].pc = "exec"

\* C5 as stated: a run whose step 2 raised ends with its row Failed,
\* completed_at set, error_message the exception text, and execute_job
\* returning False without raising.
C5_HandlerAlwaysRecords ==
    \A r \in RunIds : Recorded(r) =>
        /\ runs[r].outcome = "returned"
        /\ runs[r].retval = "False"
        /\ RowOf(r).present
        /\ RowOf(r).status = FAILED
        /\ RowOf(r).completed_at # NoValue
        /\ RowOf(r).error_message = JobAttributeRead

\* C5 amended: when step 2 raised, either the handler recorded it (the row, as
\* long as it exists, is Failed with completed_at set and the exception text,
\* and execute_job returned False), or the handler itself failed, because the
\* row was gone or the store refused the write, and then its exception left
\* execute_job and the row, if it exists, is still Running.
C5_HandlerRecordsOrRaises ==
    \A r \in RunIds : Recorded(r) =>
        \/ /\ runs[r].outcome = "returned"
           /\ runs[r].retval = "False"
           /\ runs[r].exc = JobAttributeRead
           /\ RowOf(r).present =>
                /\ RowOf(r).status = FAILED
                /\ RowOf(r).completed_at # NoValue
                /\ RowOf(r).completed_at >= RowOf(r).started_at
                /\ RowOf(r).error_message = runs[r].exc
        \/ /\ runs[r].outcome = "raised"
           /\ runs[r].retval = NULL
           /\ \/ runs[r].exc = "AttributeError" /\ ~RowOf(r).present
              \/ /\ runs[r].exc = "OperationalError"
                 /\ RowOf(r).present => /\ RowOf(r).status = RUNNING
                                        /\ RowOf(r).completed_at = NoValue

\* step 2 raised and the handler recorded it
C5_Witness ==
    \E r \in RunIds : /\ Recorded(r)
                      /\ runs[r].outcome = "returned"
                      /\ RowOf(r).present
                      /\ RowOf(r).status = FAILED
                      /\ RowOf(r).error_message = JobAttributeRead

\* C6: no failure inside a run reaches the timing loop: the step that ends a
\* run, whatever its outcome (returned, raised by a store failure or by a
\* failed re-fetch, dropped), leaves the scheduler state and every registered
\* entry with its next fire time as they were, and frees its pool thread.
C6_FailureStaysInRun ==
    [][\A r \in RunIds :
          (runs[r].pc # "done" /\ runs'[r].pc = "done") =>
              /\ schedState' = schedState
              /\ entries' = entries
              /\ \A q \in RunIds \ {r} : runs'[q] = runs[q]]_vars

\* a run ended by an exception, and a different job fired at a later due time
\* with the scheduler still running
C6_Witness ==
    /\ schedState = "running"
    /\ \E r1, r2 \in RunIds :
          /\ runs[r1].pc = "done"
          /\ runs[r1].outcome = "raised"
          /\ runs[r2].job # runs[r1].job
          /\ runs[r2].run_time > runs[r1].run_time
          /\ runs[r2].pc = "exec"

StopCalled == schedState \in {"stopping", "stopped"}

\* C7 as stated: after stop() has been called no new execution row is
\* created, and when stop() has returned no execution row is still Running.
C7_NoRowAfterStopNoneRunning ==
    /\ [][StopCalled => Len(executions') = Len(executions)]_vars
    /\ [](schedState = "stopped" =>
            \A e \in ExecIds : executions[e].present => executions[e].status # RUNNING)

\* C7 amended: after stop() has been called the timing loop submits no new
\* fire, while the work items already submitted still run (and may create
\* their row); when stop() has returned every submitted work item has
\* finished, and a row is still Running only if the terminal write of its run
\* failed.
C7_StopWaitsForSubmitted ==
    /\ [][StopCalled => Len(runs') = Len(runs)]_vars
    /\ [](schedState = "stopped" =>
            /\ \A r \in RunIds : runs[r].pc = "done"
            /\ \A e \in ExecIds :
                  (executions[e].present /\ executions[e].status = RUNNING) =>
                      \E r \in RunIds : /\ runs[r].execution_id = e
                                        /\ runs[r].outcome = "raised")

\* stop() has returned after the runs in flight: one recorded its failure,
\* another could not write and left its row Running
C7_Witness ==
    /\ schedState = "stopped"
    /\ \E r \in RunIds : /\ Recorded(r)
                         /\ runs[r].outcome = "returned"
                         /\ RowOf(r).present
                         /\ RowOf(r).status = FAILED
    /\ \E r \in RunIds : /\ Recorded(r)
                         /\ runs[r].outcome = "raised"
                         /\ RowOf(r).present
                         /\ RowOf(r).status = RUNNING

ScriptOf(r) == jobs[runs[r].job_id].script_path

\* a run that execute_job completed and whose row is in the store
Completed(r) == Recorded(r) /\ runs[r].outcome = "returned" /\ RowOf(r).present

\* C8: a run of a script that does not exit within its timeout leaves its row
\* Failed with the timeout error of the process runner.
C8_TimeoutRecorded ==
    \A r \in RunIds :
        (Completed(r) /\ PathExists(ScriptOf(r)) /\ ChildOutcome(ScriptOf(r)).timed_out) =>
            /\ RowOf(r).status = FAILED
            /\ RowOf(r).error_message = ExecuteScriptResult(ScriptOf(r)).error

\* C9: a run of a job whose script path does not exist leaves its row Failed
\* with the script-not-found error of the process runner.
C9_ScriptNotFoundRecorded ==
    \A r \in RunIds :
        (Completed(r) /\ ~PathExists(ScriptOf(r))) =>
            /\ RowOf(r).status = FAILED
            /\ RowOf(r).error_message = ExecuteScriptResult(ScriptOf(r)).error

\* C10: for a script that exists and exits, the row is Success with no error
\* and execute_job returns True exactly when the exit code is 0, and otherwise
\* the row is Failed with the captured stderr as its error.
C10_OutcomeMirrorsExit ==
    \A r \in RunIds :
        (Completed(r) /\ PathExists(ScriptOf(r)) /\ ~ChildOutcome(ScriptOf(r)).timed_out) =>
            LET child == ChildOutcome(ScriptOf(r)) IN
            IF child.returncode = 0
            THEN /\ RowOf(r).status = SUCCESS
                 /\ RowOf(r).error_message = NULL
                 /\ runs[r].retval = "True"
            ELSE /\ RowOf(r).status = FAILED
                 /\ RowOf(r).error_message = child.stderr
                 /\ runs[r].retval = "False"

\* ============================================ dashboard API: execute-now
\* core.executor.ScriptExecutor, imported by jobs.py:25, is not part of
\* core/executor.py; its execute_script is taken from the Process Runner
\* contract: the runner's result with the time the run took.
ScriptExecutorResult(script_path, duration) ==
    LET result == ExecuteScript(runner.platform, script_path, TRUE) IN
    [success |-> result.success, exit_code |-> result.exit_code, stdout |-> result.stdout,
     stderr |-> result.stderr, error |-> result.error, duration |-> duration]

\* jobs.py:307-324: the job is looked up (404 when absent) and a RUNNING row
\* is added and committed; nothing is asked about executions in progress.
\* The session is the request's (jobs.py:300, dependencies.py:21-34): it is
\* opened before the handler and closed when the request ends, and after the
\* commit db.refresh and the read of job.script_path begin a transaction in it.
ApiExecuteStart(j) ==
    /\ Len(apiRuns) < MaxCalls
    /\ jobs[j].present
    /\ \E committed \in BOOLEAN :
          IF committed
          THEN /\ executions' = Append(executions, NewExecution(j))
               /\ apiRuns' = Append(apiRuns, [job |-> j, pc |-> "exec",
                                              execution_id |-> Len(executions) + 1,
                                              status_code |-> 0, session |-> "open"])
          ELSE /\ apiRuns' = Append(apiRuns, [job |-> j, pc |-> "done",
                                              execution_id |-> 0, status_code |-> 500,
                                              session |-> "closed"])
               /\ UNCHANGED executions
    /\ UNCHANGED <<max_concurrent_jobs, now, jobs, schedState, entries, runs, runner, lastCall>>

\* jobs.py:334-340: the fields written from the result
ApiResultUpdate(row, result) ==
    [row EXCEPT !.status = IF result.success THEN SUCCESS ELSE FAILED,
                !.completed_at = now,
                !.duration_seconds = result.duration,
                !.stdout = result.stdout,
                !.stderr = result.stderr,
                !.exit_code = result.exit_code,
                !.error_message = result.error]

\* jobs.py:353-355: the fields written by the except branch
ApiFailureUpdate(row, exc) ==
    [row EXCEPT !.status = FAILED, !.completed_at = now, !.error_message = exc]

\* jobs.py:326-361: the script is run and the row updated; when the commit
\* fails the except branch writes the failure, if the store lets it, and the
\* request ends with status 500
ApiExecuteFinish(a) ==
    /\ apiRuns[a].pc = "exec"
    /\ LET id  == apiRuns[a].execution_id
           row == executions[id]
           result == ScriptExecutorResult(jobs[apiRuns[a].job].script_path, now - row.started_at)
       IN
       \E committed, recorded \in BOOLEAN :
          IF row.present /\ committed
          THEN /\ executions' = [executions EXCEPT ![id] = ApiResultUpdate(@, result)]
               /\ apiRuns' = [apiRuns EXCEPT ![a].pc = "done", ![a].status_code = 200,
                                             ![a].session = "closed"]
          ELSE /\ executions' = IF row.present /\ recorded
                                THEN [executions EXCEPT ![id] = ApiFailureUpdate(@, "OperationalError")]
                                ELSE executions
               /\ apiRuns' = [apiRuns EXCEPT ![a].pc = "done", ![a].status_code = 500,
                                             ![a].session = "closed"]
    /\ UNCHANGED <<max_concurrent_jobs, now, jobs, schedState, entries, runs, runner, lastCall>>

\* the engine with its jobs loaded, and the API serving execute-now requests
InitApi ==
    /\ max_concurrent_jobs = 1
    /\ now = 0
    /\ jobs \in {[j \in Jobs |-> JobRow(j, scripts)] : scripts \in ScriptTables}
    /\ executions = <<>>
    /\ schedState = "none"
    /\ entries = [j \in Jobs |-> NoEntry]
    /\ runs = <<>>
    /\ runner = [platform |-> "linux", calls |-> <<>>]
    /\ apiRuns = <<>>
    /\ lastCall = NoCall

NextApi ==
    \/ Tick
    \/ PlatformInitialize
    \/ PlatformStart
    \/ ProcessJobs
    \/ \E r \in RunIds : WorkerPickup(r)
    \/ \E r \in RunIds : ExecScript(r)
    \/ \E j \in Jobs : ApiExecuteStart(j)
    \/ \E a \in DOMAIN apiRuns : ApiExecuteFinish(a)

SpecApi == InitApi /\ [][NextApi]_vars

\* ================================================ the control surface
\* JobScheduler used on its own, as the module's self-test does
\* (scheduler.py:300-330): initialize, start, add_job, remove_job.
CronArgs == {NULL, "", EveryMinute, EveryTwoMinutes} \cup MalformedCronTexts
IntervalArgs == {NoValue, 0, 1}
RunDateArgs == {NoValue, 1}
ReplaceArgs == {NULL, "True"}

InitControl ==
    /\ max_concurrent_jobs = 1
    /\ now = 0
    /\ jobs = [j \in Jobs |-> JobRow(j, <<>>)]
    /\ executions = <<>>
    /\ schedState = "none"
    /\ entries = [j \in Jobs |-> NoEntry]
    /\ runs = <<>>
    /\ runner = [platform |-> "linux", calls |-> <<>>]
    /\ apiRuns = <<>>
    /\ lastCall = NoCall

\* BaseScheduler.start: the pending jobs are stored and get their first run time
StartedEntry(e) ==
    IF e.registered /\ e.next_run_time = NoValue /\ ~e.paused
    THEN [e EXCEPT !.next_run_time = FirstRunTime(e, now)]
    ELSE e

\* scheduler.py:77-88  JobScheduler.start
SchedulerStart ==
    /\ schedState \in {"none", "initialized"}
    /\ schedState' = "running"
    /\ entries' = [j \in Jobs |-> StartedEntry(entries[j])]
    /\ UNCHANGED <<max_concurrent_jobs, now, jobs, executions, runs, runner, apiRuns, lastCall>>

\* scheduler.py:100-164  JobScheduler.add_job(func, "job_<j>", ...)
AddJob(j, cron_expression, interval_seconds, run_date, replace_existing) ==
    /\ lastCall.seq < MaxCalls
    /\ schedState \in {"none", "initialized", "running"}
    /\ LET raised == AddJobRaises(cron_expression, interval_seconds, run_date, replace_existing)
       IN /\ entries' = IF raised = NULL
                        THEN [entries EXCEPT ![j] = AddedEntry(@, cron_expression, interval_seconds,
                                                              run_date, schedState = "running")]
                        ELSE entries
          /\ lastCall' = [seq |-> lastCall.seq + 1, op |-> "add_job", at |-> now, job_id |-> j,
                          cron_expression |-> cron_expression,
                          interval_seconds |-> interval_seconds,
                          run_date |-> run_date,
                          replace_existing |-> replace_existing,
                          raised |-> raised]
    /\ schedState' = IF schedState = "none" THEN "initialized" ELSE schedState
    /\ UNCHANGED <<max_concurrent_jobs, now, jobs, executions, runs, runner, apiRuns>>

\* scheduler.py:166-176  JobScheduler.remove_job: a lookup error is logged
RemoveJob(j) ==
    /\ lastCall.seq < MaxCalls
    /\ schedState \in {"initialized", "running"}
    /\ entries' = [entries EXCEPT ![j] = NoEntry]
    /\ lastCall' = [NoCall EXCEPT !.seq = lastCall.seq + 1, !.op = "remove_job", !.job_id = j]
    /\ UNCHANGED <<max_concurrent_jobs, now, jobs, executions, schedState, runs, runner, apiRuns>>

\* (variant: pausing marks the entry and keeps its next run time)
PausedEntryKeepTime(e) == [e EXCEPT !.paused = TRUE]

\* scheduler.pause_job: the entry stays in the store with next_run_time None
PausedEntry(e) == [e EXCEPT !.next_run_time = NoValue, !.paused = TRUE]

\* scheduler.py:178-188  JobScheduler.pause_job: a lookup error is logged
PauseJob(j) ==
    /\ lastCall.seq < MaxCalls
    /\ schedState \in {"initialized", "running"}
    /\ entries' = [entries EXCEPT ![j] = IF @.registered THEN PausedEntry(@) ELSE @]
    /\ lastCall' = [NoCall EXCEPT !.seq = lastCall.seq + 1, !.op = "pause_job", !.job_id = j]
    /\ UNCHANGED <<max_concurrent_jobs, now, jobs, executions, schedState, runs, runner, apiRuns>>

\* scheduler.resume_job: next_run_time is trigger.get_next_fire_time(None, now)
ResumedEntry(e) == [e EXCEPT !.next_run_time = FirstRunTime(e, now), !.paused = FALSE]

\* scheduler.py:190-200  JobScheduler.resume_job: a lookup error is logged
ResumeJob(j) ==
    /\ lastCall.seq < MaxCalls
    /\ schedState \in {"initialized", "running"}
    /\ entries' = [entries EXCEPT ![j] = IF @.registered THEN ResumedEntry(@) ELSE @]
    /\ lastCall' = [NoCall EXCEPT !.seq = lastCall.seq + 1, !.op = "resume_job", !.job_id = j]
    /\ UNCHANGED <<max_concurrent_jobs, now, jobs, executions, schedState, runs, runner, apiRuns>>

NextControl ==
    \/ PlatformInitialize
    \/ SchedulerStart
    \/ \E j \in Jobs, cron_expression \in CronArgs, interval_seconds \in IntervalArgs,
          run_date \in RunDateArgs, replace_existing \in ReplaceArgs :
            AddJob(j, cron_expression, interval_seconds, run_date, replace_existing)
    \/ \E j \in Jobs : RemoveJob(j)

SpecControl == InitControl /\ [][NextControl]_vars

\* ================================================ load and the jobs API
\* The platform started on a jobs table the API has filled: the schema
\* leaves cron_expression optional and unvalidated (models.py:56,
\* schemas.py:20), and enabled is any boolean.
LoadCronTexts == {NULL, EveryMinute, "61 * * * *", "* * * *"}

StoredJobRows ==
    [present : {TRUE}, enabled : BOOLEAN, max_retries : {3}, cron_expression : LoadCronTexts,
     script_path : {"scripts/exit0.py"}]

InitLoad ==
    /\ max_concurrent_jobs = 1
    /\ now = 0
    /\ jobs \in [Jobs -> StoredJobRows]
    /\ executions = <<>>
    /\ schedState = "none"
    /\ entries = [j \in Jobs |-> NoEntry]
    /\ runs = <<>>
    /\ runner = [platform |-> "linux", calls |-> <<>>]
    /\ apiRuns = <<>>
    /\ lastCall = NoCall

\* jobs.py:260-277  POST /jobs/{id}/enable: the row only
ApiEnableJob(j) ==
    /\ jobs[j].present
    /\ jobs' = [jobs EXCEPT ![j].enabled = TRUE]
    /\ UNCHANGED <<max_concurrent_jobs, now, executions, schedState, entries, runs, runner, apiRuns, lastCall>>

\* jobs.py:280-297  POST /jobs/{id}/disable: the row only
ApiDisableJob(j) ==
    /\ jobs[j].present
    /\ jobs' = [jobs EXCEPT ![j].enabled = FALSE]
    /\ UNCHANGED <<max_concurrent_jobs, now, executions, schedState, entries, runs, runner, apiRuns, lastCall>>

NextLoad ==
    \/ Tick
    \/ PlatformInitialize
    \/ PlatformStart
    \/ \E j \in Jobs : ApiEnableJob(j)
    \/ \E j \in Jobs : ApiDisableJob(j)
    \/ \E j \in Jobs : ApiDeleteJob(j)

SpecLoad == InitLoad /\ [][NextLoad]_vars

\* ================================================ a late timing loop
\* The platform was started during the minute before the clock's origin, so
\* the first run time of every entry is minute 0; the first job is due every
\* third minute and the others every minute.  The timing loop and the pool
\* get to the entries at any later minute.
LateJobRow(j) ==
    [JobRow(j, <<>>) EXCEPT
        !.cron_expression = IF j = 1 THEN EveryThreeMinutes ELSE EveryMinute,
        !.max_retries = IF j = 1 THEN 0 ELSE 3]

LateEntry(j) ==
    [AddedEntry(NoEntry, LateJobRow(j).cron_expression, NoValue, NoValue, FALSE)
        EXCEPT !.next_run_time = 0]

InitLate ==
    /\ max_concurrent_jobs = 1
    /\ now = 0
    /\ jobs = [j \in Jobs |-> LateJobRow(j)]
    /\ executions = <<>>
    /\ schedState = "running"
    /\ entries = [j \in Jobs |-> LateEntry(j)]
    /\ runs = <<>>
    /\ runner = [platform |-> "linux", calls |-> <<>>]
    /\ apiRuns = <<>>
    /\ lastCall = NoCall

NextLate ==
    \/ Tick
    \/ ProcessJobs
    \/ \E r \in RunIds : WorkerPickup(r)
    \/ \E r \in RunIds : ExecScript(r)

SpecLate == InitLate /\ [][NextLate]_vars

\* ================================================ remove, pause, resume
\* The running platform with remove_job or pause_job called once on its
\* scheduler, and resume_job after a pause, while fires are submitted and
\* executions are in flight.
NextPause ==
    \/ Tick
    \/ ProcessJobs
    \/ \E r \in RunIds : WorkerPickup(r)
    \/ \E r \in RunIds : ExecScript(r)
    \/ \E j \in Jobs : lastCall.seq = 0 /\ RemoveJob(j)
    \/ \E j \in Jobs : lastCall.seq = 0 /\ PauseJob(j)
    \/ \E j \in Jobs : lastCall.op = "pause_job" /\ lastCall.job_id = j /\ ResumeJob(j)

SpecPause == InitLate /\ [][NextPause]_vars

\* ================================================ one-shot jobs
\* The control surface with the clock running: jobs added with a run date,
\* before or after the scheduler starts, and the timing loop and the pool at
\* work.  The callback of job_<j> is execute_job(j), as in the load.
MaxInstant == 4

\* the clock of the control surface
TickInstant ==
    /\ now < MaxInstant
    /\ now' = now + 1
    /\ UNCHANGED <<max_concurrent_jobs, jobs, executions, schedState, entries, runs, runner, apiRuns, lastCall>>

RunDates == 0..2

NextDate ==
    \/ TickInstant
    \/ SchedulerStart
    \/ \E j \in Jobs, run_date \in RunDates : AddJob(j, NULL, NoValue, run_date, NULL)
    \/ ProcessJobs
    \/ \E r \in RunIds : WorkerPickup(r)
    \/ \E r \in RunIds : ExecScript(r)

SpecDate == InitControl /\ [][NextDate]_vars

\* ================================================ interval jobs
\* The control surface with the clock running, as in the module's self-test
\* (scheduler.py:312-320): one job added with an interval, before or after
\* the scheduler starts.
Intervals == {1, 2}

NextInterval ==
    \/ TickInstant
    \/ SchedulerStart
    \/ \E j \in Jobs, interval_seconds \in Intervals :
            lastCall.seq = 0 /\ AddJob(j, NULL, interval_seconds, NoValue, NULL)
    \/ ProcessJobs
    \/ \E r \in RunIds : WorkerPickup(r)
    \/ \E r \in RunIds : ExecScript(r)

SpecInterval == InitControl /\ [][NextInterval]_vars

\* ================================================ the cron trigger
\* CronTrigger.from_crontab(text) asked for its first fire time at any
\* instant, as add_job and start do, and then for the fire time after each
\* fire, as the timing loop does.  now is the instant of the request, in
\* half minutes; entry job_1 holds the expression and the answer.
MaxCronInstant == 130

InitCron ==
    /\ max_concurrent_jobs = 1
    /\ now \in 0..MaxCronInstant
    /\ jobs \in {[j \in Jobs |-> [JobRow(j, <<>>) EXCEPT
                                      !.cron_expression = IF j = 1 THEN expr ELSE @]] :
                   expr \in CronExprs}
    /\ executions = <<>>
    /\ schedState = "running"
    /\ entries = [j \in Jobs |-> NoEntry]
    /\ runs = <<>>
    /\ runner = [platform |-> "linux", calls |-> <<>>]
    /\ apiRuns = <<>>
    /\ lastCall = NoCall

\* add_job on the running scheduler: next_run_time is
\* trigger.get_next_fire_time(None, now)
CronFirst ==
    /\ ~entries[1].registered
    /\ entries' = [entries EXCEPT ![1] =
          [NewTrigger(jobs[1].cron_expression, NoValue, NoValue) EXCEPT
              !.next_run_time = GetNextFireTime(jobs[1].cron_expression, NoValue, now)]]
    /\ UNCHANGED <<max_concurrent_jobs, now, jobs, executions, schedState, runs, runner, apiRuns, lastCall>>

\* the timing loop wakes at the fire time and asks for the one after it:
\* trigger.get_next_fire_time(run_time, now)
CronFeed ==
    /\ entries[1].registered
    /\ now <= entries[1].next_run_time
    /\ LET next == GetNextFireTime(entries[1].cron_expression,
                                   entries[1].next_run_time, entries[1].next_run_time)
       IN /\ next <= MaxCronInstant
          /\ now' = entries[1].next_run_time
          /\ entries' = [entries EXCEPT ![1].next_run_time = next]
    /\ UNCHANGED <<max_concurrent_jobs, jobs, executions, schedState, runs, runner, apiRuns, lastCall>>

NextCron == CronFirst \/ CronFeed

SpecCron == InitCron /\ [][NextCron]_vars

\* ================================================ the ledger to the shutdown
\* The running platform writing execution rows, until it is stopped
\* (main.py:112-126).
NextShutdown ==
    \/ Tick
    \/ ProcessJobs
    \/ \E r \in RunIds : WorkerPickup(r)
    \/ \E r \in RunIds : ExecScript(r)
    \/ StopBegin
    \/ StopReturn

SpecShutdown == InitLate /\ [][NextShutdown]_vars

\* ------------------------------------------------ claims on the runner
RunnerCalls == {runner.calls[i] : i \in DOMAIN runner.calls}

Refused(call) ==
    /\ call.spawned = NoProcess
    /\ ~call.result.success
    /\ call.result.error # NULL

\* C11: the runner's action depends on the lower-cased extension of an
\* existing script and on the platform only: .py starts the interpreter;
\* .sh/.bash start a shell, except on Windows where they are refused;
\* .ps1/.bat/.cmd start the platform shell on Windows only and are refused
\* elsewhere; any other extension is refused; a refused call (and a call for
\* a missing script) starts no process.
C11_DispatchByExtension ==
    \A call \in RunnerCalls :
        LET extension == Lower(PathSuffix(call.script_path))
            started   == IF call.spawn_ok THEN call.spawned ELSE "not started"
        IN  IF ~PathExists(call.script_path) THEN Refused(call)
            ELSE CASE extension = ".py" ->
                        started \in {"interpreter", "not started"}
                   [] extension \in {".sh", ".bash"} ->
                        IF runner.platform = "windows"
                        THEN Refused(call) /\ call.result.error = "Shell scripts not supported on Windows"
                        ELSE started \in {"shell", "not started"}
                   [] extension \in {".ps1", ".bat", ".cmd"} ->
                        IF runner.platform = "windows"
                        THEN started \in {"platform_shell", "not started"}
                        ELSE Refused(call) /\ call.result.error = "Windows scripts not supported on Linux"
                   [] OTHER ->
                        Refused(call) /\ call.result.error = "Unsupported script type"

\* on one host a script of one family was refused and one of another started
C11_Witness ==
    \E c1, c2 \in RunnerCalls :
        /\ Lower(PathSuffix(c1.script_path)) \in {".sh", ".bash", ".ps1", ".bat", ".cmd"}
        /\ PathExists(c1.script_path)
        /\ Refused(c1)
        /\ c2.spawned \in {"shell", "platform_shell"}

\* C12: every result of the runner has the fields exit_code, stdout, stderr,
\* error and duration.
C12_ResultHasDuration ==
    \A call \in RunnerCalls :
        {"exit_code", "stdout", "stderr", "error", "duration"} \subseteq DOMAIN call.result

\* ------------------------------------------------ claims on execute-now
\* C13: every execution row in a terminal state has started_at and
\* completed_at set with started_at <= completed_at, and a duration equal to
\* completed_at - started_at.
C13_TerminalRowsTimed ==
    \A e \in ExecIds :
        (executions[e].present /\ executions[e].status \in TerminalStatus) =>
            /\ executions[e].started_at # NoValue
            /\ executions[e].completed_at # NoValue
            /\ executions[e].started_at <= executions[e].completed_at
            /\ executions[e].duration_seconds # NoValue
            /\ executions[e].duration_seconds = executions[e].completed_at - executions[e].started_at

\* C14: execute-now goes through the concurrency gate: a request for a job
\* creates its Running row only when no execution of that job is Running
\* (per-job cap of 1) and fewer executions than the global cap are Running.
C14_ExecuteNowGated ==
    [][\A j \in Jobs :
          (/\ Len(apiRuns') = Len(apiRuns) + 1
           /\ apiRuns'[Len(apiRuns')].job = j
           /\ apiRuns'[Len(apiRuns')].execution_id # 0)
          => /\ ~\E e \in ExecIds : /\ executions[e].present
                                    /\ executions[e].job_id = j
                                    /\ executions[e].status = RUNNING
             /\ Cardinality({e \in ExecIds : /\ executions[e].present
                                              /\ executions[e].status = RUNNING})
                   < max_concurrent_jobs]_vars

\* ------------------------------------------------ claims on add_job
\* a step that is a call of add_job
AddStep == lastCall'.seq = lastCall.seq + 1 /\ lastCall'.op = "add_job"

\* the number of schedule kinds a call supplies (arguments that are not None)
SuppliedKinds(call) ==
    (IF call.cron_expression # NULL THEN 1 ELSE 0)
    + (IF call.interval_seconds # NoValue THEN 1 ELSE 0)
    + (IF call.run_date # NoValue THEN 1 ELSE 0)

\* C15: an add_job call that supplies no schedule kind, or more than one of
\* cron expression, interval and run date, raises, and the registered entries
\* are left as they were.
C15_OneKindOrRefused ==
    [][(AddStep /\ SuppliedKinds(lastCall') # 1)
          => (lastCall'.raised # NULL /\ entries' = entries)]_vars

\* C16: an add_job call for an id that is already registered, made without
\* asking for replace_existing, raises and leaves the existing entry as it was.
C16_DuplicateRejected ==
    [][(/\ AddStep
        /\ entries[lastCall'.job_id].registered
        /\ lastCall'.replace_existing = NULL)
          => (/\ lastCall'.raised # NULL
              /\ entries'[lastCall'.job_id] = entries[lastCall'.job_id])]_vars

\* C17: an add_job call with malformed cron text raises ValueError at the call
\* and registers nothing, so no registered entry ever carries a cron
\* expression that does not parse.
C17_MalformedCronRefused ==
    /\ [][(AddStep /\ lastCall'.cron_expression \in MalformedCronTexts)
             => (lastCall'.raised = "ValueError" /\ entries' = entries)]_vars
    /\ [](\A j \in Jobs :
            (entries[j].registered /\ entries[j].trigger = "cron")
                => entries[j].cron_expression \in CronExprs)

\* add_job with malformed cron text has just raised for an id whose entry,
\* registered earlier with a valid expression, is still there
C17_Witness ==
    /\ lastCall.op = "add_job"
    /\ lastCall.cron_expression \in MalformedCronTexts
    /\ lastCall.raised = "ValueError"
    /\ entries[lastCall.job_id].registered
    /\ entries[lastCall.job_id].trigger = "cron"

\* ------------------------------------------------ claims on the load
\* a step that is the load of the jobs table into the scheduler
LoadStep == schedState = "initialized" /\ schedState' = "running"

\* the load registers this row: present, enabled, with a cron expression
\* that parses
Loadable(row) == row.present /\ row.enabled /\ row.cron_expression \in CronExprs

\* C18: the load registers every enabled job whose cron expression parses,
\* with that expression, and registers nothing for a job whose cron text is
\* missing or malformed, wherever the failing job stands in the table.
C18_LoadSkipsFailingJob ==
    [][LoadStep =>
          \A j \in Jobs :
             /\ Loadable(jobs[j]) =>
                   (/\ entries'[j].registered
                    /\ entries'[j].cron_expression = jobs[j].cron_expression)
             /\ ~Loadable(jobs[j]) => ~entries'[j].registered]_vars

\* a load has met an enabled job whose cron text is missing or malformed,
\* skipped it, and registered an enabled job that comes after it
C18_Witness ==
    /\ schedState = "running"
    /\ \E j1, j2 \in Jobs :
          /\ j1 < j2
          /\ jobs[j1].present /\ jobs[j1].enabled
          /\ jobs[j1].cron_expression \notin CronExprs
          /\ ~entries[j1].registered
          /\ Loadable(jobs[j2])
          /\ entries[j2].registered

\* C19: every registered scheduler entry belongs to a job that exists and
\* whose enabled flag is true.
C19_NoEntryForDisabledJob ==
    \A j \in Jobs : entries[j].registered => (jobs[j].present /\ jobs[j].enabled)

\* ------------------------------------------------ claims on the pool
\* run r waits in the pool's queue while every worker is occupied and at
\* least one of them by an execution of another job
HeldBack(r) ==
    /\ runs[r].pc = "queued"
    /\ BusyWorkers >= PoolMaxWorkers
    /\ \E q \in RunIds : runs[q].pc = "exec" /\ runs[q].job # runs[r].job

PickedUp(r) == runs[r].pc = "queued" /\ runs'[r].pc # "queued"

\* the runs this step submits
Submitted == (Len(runs) + 1)..Len(runs')

\* C21 (as stated): a run whose fire time lies more than the grace period in
\* the past when it is reached is still executed, once.
C21_LateFireRunsOnce ==
    [][\A r \in RunIds :
          (PickedUp(r) /\ now - runs[r].run_time > MisfireGraceTime)
              => runs'[r].outcome # "missed"]_vars

\* C21 (amended): a pass of the timing loop submits at most one run per due
\* job, for the latest fire time that is not after now, and moves the next
\* fire time past now; the run is executed if a worker takes it within the
\* grace period of that fire time and is dropped, leaving no row, otherwise.
C21_CoalescedThenGrace ==
    [][/\ \A r1, r2 \in Submitted : runs'[r1].job = runs'[r2].job => r1 = r2
       /\ \A r \in Submitted :
             LET e == entries[runs'[r].job] IN
             /\ runs'[r].run_time >= e.next_run_time
             /\ runs'[r].run_time <= now
             /\ now - runs'[r].run_time < CronPeriod(e.cron_expression)
             /\ entries'[runs'[r].job].next_run_time > now
       /\ \A r \in RunIds :
             PickedUp(r) =>
                IF now - runs[r].run_time > MisfireGraceTime
                THEN /\ runs'[r].outcome = "missed"
                     /\ executions' = executions
                ELSE runs'[r].outcome # "missed"]_vars

\* the loop reached both entries two minutes late: the run of the job due
\* every third minute was dropped, and the three missed fires of the job due
\* every minute were run as one
C21_Witness ==
    \E r1, r2 \in RunIds :
        /\ runs[r1].outcome = "missed"
        /\ runs[r1].execution_id = 0
        /\ runs[r2].job # runs[r1].job
        /\ runs[r2].run_time = 2
        /\ runs[r2].execution_id > 0
        /\ \A q \in RunIds : runs[q].job = runs[r2].job => q = r2

\* ------------------------------------------------ claims on one-shot jobs
\* the only add_job call made so far registered job_<j> with a trigger of
\* this kind
OnlyCallAdded(j, kind) ==
    /\ lastCall.seq = 1
    /\ lastCall.op = "add_job"
    /\ lastCall.raised = NULL
    /\ lastCall.job_id = j
    /\ TriggerKind(lastCall.cron_expression, lastCall.interval_seconds, lastCall.run_date) = kind

\* the job function has been called for run r
Called(r) == runs[r].pc # "queued" /\ runs[r].outcome # "missed"

\* C22: the job function of a job registered with a run date that had
\* already passed at the add_job call is never called.
C22_PastDateNeverFires ==
    \A r \in RunIds :
        (/\ OnlyCallAdded(runs[r].job, "date")
         /\ lastCall.run_date < lastCall.at)
            => ~Called(r)

\* ------------------------------------------------ claims on the cron trigger
\* no instant from a up to b fires
NoFireIn(expr, a, b) == \A k \in a..b : ~Fires(expr, k)

\* the step that computes the first fire time, and one that feeds the
\* previous fire time back
FirstStep == ~entries[1].registered /\ entries'[1].registered
FeedStep == entries[1].registered /\ entries'[1].next_run_time # entries[1].next_run_time

OnGrid(t) ==
    /\ t >= lastCall.at + lastCall.interval_seconds
    /\ (t - lastCall.at) % lastCall.interval_seconds = 0

\* C24 (as stated): the first fire time of an interval job registered at T
\* is T + N (the case k = 1 of "the k-th fire time is T + k * N").
C24_FirstFireAtTPlusN ==
    \A j \in Jobs :
        (/\ OnlyCallAdded(j, "interval")
         /\ entries[j].next_run_time # NoValue
         /\ \A r \in RunIds : runs[r].job # j)
            => entries[j].next_run_time = lastCall.at + lastCall.interval_seconds

\* C24 (amended): every fire time of an interval job registered at T is one
\* of T + k * N and the fire times of its runs increase strictly; a pass of
\* the timing loop sets the next fire time to the latest fire time that is
\* not after now, plus N, whatever the state of the job's executions; the
\* first fire time is T + N when the scheduler is running at the add, and
\* fire times that pass before the scheduler starts, or before the loop
\* reaches the entry, are skipped.
C24_FiresOnGrid ==
    /\ [](\A j \in Jobs :
            OnlyCallAdded(j, "interval") =>
               /\ entries[j].next_run_time # NoValue => OnGrid(entries[j].next_run_time)
               /\ \A r \in RunIds : runs[r].job = j => OnGrid(runs[r].run_time)
               /\ \A r1, r2 \in RunIds :
                     (runs[r1].job = j /\ runs[r2].job = j /\ r1 < r2)
                        => runs[r1].run_time < runs[r2].run_time)
    /\ [][\A j \in Jobs :
            /\ (j \in DueJobs /\ entries[j].trigger = "interval"
                  /\ lastCall' = lastCall
                  /\ entries'[j].next_run_time # entries[j].next_run_time)
                  => /\ entries'[j].next_run_time > now
                     /\ entries'[j].next_run_time - entries[j].interval_seconds <= now
                     /\ (entries'[j].next_run_time - entries[j].next_run_time)
                           % entries[j].interval_seconds = 0
            /\ (AddStep /\ lastCall'.job_id = j /\ lastCall'.raised = NULL
                  /\ schedState = "running")
                  => entries'[j].next_run_time = now + lastCall'.interval_seconds]_vars

\* a job added with an interval of 2 has fired at T + 2 and at T + 4, and
\* the function of the second run has been called
C24_Witness ==
    \E j \in Jobs, r1, r2 \in RunIds :
        /\ OnlyCallAdded(j, "interval")
        /\ lastCall.interval_seconds = 2
        /\ runs[r1].job = j /\ runs[r2].job = j
        /\ runs[r1].run_time = lastCall.at + 2
        /\ runs[r2].run_time = lastCall.at + 4
        /\ Called(r2)

\* ------------------------------------------------ claims on remove, pause, resume
\* a step that is a call of remove_job, pause_job or resume_job
ControlStep ==
    /\ lastCall'.seq = lastCall.seq + 1
    /\ lastCall'.op \in {"remove_job", "pause_job", "resume_job"}

\* the entry is not in the store, or is paused
Inactive(e) == ~e.registered \/ e.paused

\* C25 (as stated): the function of a job is never called while its entry is
\* removed or paused.
C25_InactiveJobStartsNothing ==
    [][\A r \in RunIds :
          (PickedUp(r) /\ runs'[r].outcome # "missed")
              => ~Inactive(entries[runs[r].job])]_vars

\* C25 (amended): remove_job, pause_job and resume_job change the entry of
\* their job and nothing else: the submitted runs, queued or executing, and
\* the execution rows are untouched, and every executing run can still take
\* its terminal step.  After remove_job the entry is gone, after pause_job it
\* has no next run time, after resume_job it has one that is not before now;
\* the timing loop submits no run for a removed or paused job.
C25_ControlTouchesEntryOnly ==
    /\ [][/\ ControlStep =>
                /\ runs' = runs
                /\ executions' = executions
                /\ \A k \in Jobs : k # lastCall'.job_id => entries'[k] = entries[k]
                /\ lastCall'.op = "remove_job" => ~entries'[lastCall'.job_id].registered
                /\ (lastCall'.op = "pause_job" /\ entries[lastCall'.job_id].registered)
                      => /\ entries'[lastCall'.job_id].registered
                         /\ entries'[lastCall'.job_id].next_run_time = NoValue
                /\ (lastCall'.op = "resume_job" /\ entries[lastCall'.job_id].registered)
                      => /\ entries'[lastCall'.job_id].registered
                         /\ entries'[lastCall'.job_id].next_run_time >= now
          /\ \A r \in Submitted : ~Inactive(entries[runs'[r].job])]_vars
    /\ [](\A r \in RunIds : runs[r].pc = "exec" => ENABLED ExecScript(r))

\* a run is executing, its row Running, while its job is paused or removed
C25_Witness ==
    \E r \in RunIds :
        /\ lastCall.op \in {"pause_job", "remove_job"}
        /\ lastCall.job_id = runs[r].job
        /\ Inactive(entries[runs[r].job])
        /\ runs[r].pc = "exec"
        /\ executions[runs[r].execution_id].status = RUNNING

\* ------------------------------------------------ claims on the observers
\* the events for which initialize registers a listener (scheduler.py:55-70)
Listeners == {"EVENT_JOB_EXECUTED", "EVENT_JOB_ERROR", "EVENT_JOB_ADDED", "EVENT_JOB_REMOVED"}

\* the events of the five kinds fired, completed, errored, added, removed
FiveKinds ==
    {"EVENT_JOB_SUBMITTED", "EVENT_JOB_EXECUTED", "EVENT_JOB_ERROR",
     "EVENT_JOB_ADDED", "EVENT_JOB_REMOVED"}

\* run r ends in this step with this outcome
Ends(r, outcome) == runs[r].pc # "done" /\ runs'[r].pc = "done" /\ runs'[r].outcome = outcome

\* the events the scheduler dispatches in this step: a run submitted by the
\* timing loop, a job function that returned or raised, a run dropped as
\* missed, a job stored (at the add on a running scheduler, at the start for
\* a pending job), a job taken out of the store
StepEvents ==
    (IF Submitted # {} THEN {"EVENT_JOB_SUBMITTED"} ELSE {})
    \cup (IF \E r \in RunIds : Ends(r, "returned") THEN {"EVENT_JOB_EXECUTED"} ELSE {})
    \cup (IF \E r \in RunIds : Ends(r, "raised") THEN {"EVENT_JOB_ERROR"} ELSE {})
    \cup (IF \E r \in RunIds : Ends(r, "missed") THEN {"EVENT_JOB_MISSED"} ELSE {})
    \cup (IF \/ AddStep /\ lastCall'.raised = NULL /\ schedState = "running"
             \/ /\ schedState # "running" /\ schedState' = "running"
                /\ \E j \in Jobs : entries'[j].registered
          THEN {"EVENT_JOB_ADDED"} ELSE {})
    \cup (IF \E j \in Jobs : entries[j].registered /\ ~entries'[j].registered
          THEN {"EVENT_JOB_REMOVED"} ELSE {})

\* C26: every event of the five kinds fired, completed, errored, added and
\* removed that a step dispatches reaches a listener.
C26_FiveKindsNotified ==
    [][(StepEvents \cap FiveKinds) \subseteq Listeners]_vars

\* ------------------------------------------------ claims on the sessions
\* C27: while the child process of a script runs, the run holds no open store
\* session, for an execute-now run as for a scheduled run.
C27_NoSessionWhileChildRuns ==
    \A a \in DOMAIN apiRuns : apiRuns[a].pc = "exec" => apiRuns[a].session = "closed"

\* ------------------------------------------------ claims on the status history
\* C28: every execution row is created Running and changes its status at most
\* once, to Success or to Failed; no step, the shutdown included, sets a row
\* to Cancelled.
C28_RunningThenTerminal ==
    [][\A e \in DOMAIN executions' :
          /\ executions'[e].status # CANCELLED
          /\ (e \notin DOMAIN executions => executions'[e].status = RUNNING)
          /\ (e \in DOMAIN executions /\ executions'[e].status # executions[e].status
                => /\ executions[e].status = RUNNING
                   /\ executions'[e].status \in {SUCCESS, FAILED})]_vars

\* the platform has stopped with a row the engine failed and a row left
\* Running by a write that failed
C28_Witness ==
    /\ schedState = "stopped"
    /\ \E r \in RunIds : /\ runs[r].execution_id \in DOMAIN executions
                         /\ executions[runs[r].execution_id].status = FAILED
    /\ \E e \in DOMAIN executions : executions[e].status = RUNNING

\* ------------------------------------------------ claims on retries
\* the runs that went through the first session of execute_job
Started == {r \in RunIds : runs[r].execution_id # 0}

\* C29: a fire creates at most one execution row and calls the script at most
\* once, whatever its job's max_retries and however it ended: every row
\* belongs to one fire, a fire keeps its row, and a fire that is done is never
\* taken up again.
C29_OneRowPerFire ==
    /\ [](/\ Len(executions) = Cardinality(Started)
          /\ \A r, q \in Started : runs[r].execution_id = runs[q].execution_id => r = q
          /\ Len(runner.calls) <= Cardinality(Started))
    /\ [][\A r \in RunIds :
            /\ r \in Started => runs'[r].execution_id = runs[r].execution_id
            /\ runs[r].pc = "done" => runs'[r] = runs[r]
            /\ runs[r].pc = "exec" => runs'[r].pc \in {"exec", "done"}]_vars

\* a fire of a job with max_retries 3 ended Failed, a fire ended with a store
\* write failure, and a later fire of the first job is at work
C29_Witness ==
    \E r, q, n \in RunIds :
        /\ jobs[runs[r].job].max_retries = 3
        /\ runs[r].pc = "done" /\ runs[r].exc = JobAttributeRead
        /\ executions[runs[r].execution_id].status = FAILED
        /\ runs[q].pc = "done" /\ runs[q].exc = "OperationalError"
        /\ n > r /\ runs[n].job = runs[r].job /\ runs[n].pc = "exec"

\* ------------------------------------------------ claims on the callbacks
\* C30: after the load, the callback of entry job_N runs the ledger protocol
\* for job N and for no other job: every fire of entry job_N calls
\* execute_job(N), and the row it creates is a row of job N.
C30_CallbackBoundToOwnJob ==
    \A r \in RunIds :
        /\ runs[r].job_id = runs[r].job
        /\ runs[r].execution_id # 0 => executions[runs[r].execution_id].job_id = runs[r].job

\* two jobs were loaded, and the entry of the first fired after the load and
\* has its row, as has the entry of the last
C30_Witness ==
    /\ \A j \in Jobs : entries[j].registered
    /\ \E r, q \in RunIds :
          /\ runs[r].job = 1 /\ runs[q].job = NumJobs
          /\ runs[r].execution_id # 0 /\ runs[q].execution_id # 0
          /\ executions[runs[r].execution_id].present
          /\ executions[runs[q].execution_id].present

====
